---- MODULE Spec2Model ----
(***************************************************************************)
(* Model of the GIS tile processor of RocketMap (tools/lib/grid.js,        *)
(* tools/lib/projection.js and the `process` command of the CLI).          *)
(*                                                                         *)
(* Numbers.  A JavaScript Number is a binary floating-point value: every   *)
(* product, quotient and sum is rounded to the nearest value with a fixed  *)
(* number of significant bits (ties to even).  The model keeps that        *)
(* rounding and scales the mantissa down to MantissaBits bits (binary64    *)
(* has 53).  A coordinate is a whole number of degrees, held as an         *)
(* integer; a quotient is only ever used under Math.floor / Math.ceil, so  *)
(* every value the model stores is an integer.                             *)
(***************************************************************************)
EXTENDS Integers, Sequences, FiniteSets, TLC

\* ------------------------------------------------------------------ bounds
MantissaBits == 3   \* significant bits of a Number (scaled down from 53)
MaxRuns == 2        \* invocations of the `process` command in one behaviour
MaxFeatures == 2    \* features in one input dataset
MaxAllowList == 3   \* names in a --properties list
MaxCalls == 2       \* calls of optimizeProperties on its own
MaxMoves == 2       \* moveend and zoomend events of the map

\* --------------------------------------------------------- Number arithmetic
Abs(n) == IF n < 0 THEN -n ELSE n

\* number of bits of n >= 0 (0 for n = 0)
BitLen(n) == CHOOSE k \in 0..30 : n < 2^k /\ (k = 0 \/ 2^(k-1) <= n)

\* nearest integer to num/den (num >= 0, den > 0), ties to even
RoundQ(num, den) ==
  LET f == num \div den
      r2 == 2 * (num % den)
  IN IF r2 > den \/ (r2 = den /\ f % 2 = 1) THEN f + 1 ELSE f

\* an exact integer result rounded to MantissaBits significant bits
FRound(n) ==
  LET a == Abs(n)
      L == BitLen(a)
      r == IF L <= MantissaBits THEN a
           ELSE RoundQ(a, 2^(L - MantissaBits)) * 2^(L - MantissaBits)
  IN IF n < 0 THEN -r ELSE r

Representable(n) == FRound(n) = n

FAdd(a, b) == FRound(a + b)
FSub(a, b) == FRound(a - b)
FMul(a, b) == FRound(a * b)

\* Math.floor(a / b) for a >= 0, b > 0: the quotient is rounded first
FloorQuotPos(a, b) ==
  LET i == a \div b
      L == BitLen(i)
  IN IF L >= MantissaBits
       THEN RoundQ(a, b * 2^(L - MantissaBits)) * 2^(L - MantissaBits)
       ELSE RoundQ(a * 2^(MantissaBits - L), b) \div 2^(MantissaBits - L)

\* Math.ceil(a / b) for a >= 0, b > 0: the quotient is rounded first
CeilQuotPos(a, b) ==
  LET i == a \div b
      L == BitLen(i)
      s == 2^(MantissaBits - L)
  IN IF L >= MantissaBits
       THEN RoundQ(a, b * 2^(L - MantissaBits)) * 2^(L - MantissaBits)
       ELSE IF a = 0 THEN 0
       ELSE IF L = 0 THEN 1
       ELSE (RoundQ(a * s, b) + s - 1) \div s

\* Math.floor(x / g) and Math.ceil(x / g), g # 0: x / g and -x / -g are the
\* same quotient
FloorQuot(x, g) ==
  LET a == IF g < 0 THEN -x ELSE x
  IN IF a >= 0 THEN FloorQuotPos(a, Abs(g)) ELSE -CeilQuotPos(-a, Abs(g))
CeilQuot(x, g) ==
  LET a == IF g < 0 THEN -x ELSE x
  IN IF a >= 0 THEN CeilQuotPos(a, Abs(g)) ELSE -FloorQuotPos(-a, Abs(g))

\* Math.floor(x / g) * g
FloorCell(x, g) == FMul(FloorQuot(x, g), g)
\* Math.ceil(x / g) * g
CeilCell(x, g) == FMul(CeilQuot(x, g), g)

\* x.toFixed(6): the sign, then |x| as a count of 10^-6 (its digits with the
\* decimal point left out).  A value is a whole number of degrees, so the
\* six decimals are exact: 3 prints as "3.000000", -3 as "-3.000000".
ToFixedDigits == 6
ToFixed(x) == <<IF x < 0 THEN "-" ELSE "", Abs(x) * 10^ToFixedDigits>>

\* ------------------------------------------------------------ grid (grid.js)
\* no key / no value: a JavaScript object with no properties
EmptyObject == [k \in {} |-> 0]

\* obj[k] = v
PutKey(obj, k, v) == [x \in DOMAIN obj \cup {k} |-> IF x = k THEN v ELSE obj[x]]

\* the elements of an array
Range(seq) == {seq[i] : i \in 1..Len(seq)}

Min(a, b) == IF a < b THEN a ELSE b
Max(a, b) == IF a > b THEN a ELSE b

\* the bounds no vertex has widened yet: {Infinity, -Infinity, Infinity, -Infinity}.
\* Math.min / Math.max widen all four fields at the first vertex, so bounds
\* are either this sentinel or four finite numbers.
EmptyBounds == [empty |-> TRUE]

\* getCellKey(lat, lng, gridSize)
GetCellKey(lat, lng, gridSize) ==
  <<ToFixed(FloorCell(lat, gridSize)), ToFixed(FloorCell(lng, gridSize))>>

\* the values a loop `for (x = from; x < to; x += gridSize)` takes
\* (x <= to when inclusive)
RECURSIVE LoopValues(_, _, _, _)
LoopValues(from, to, gridSize, inclusive) ==
  IF (inclusive /\ from <= to) \/ (~inclusive /\ from < to)
    THEN <<from>> \o LoopValues(FAdd(from, gridSize), to, gridSize, inclusive)
    ELSE <<>>

\* the loop `for (x = from; x < to; x += gridSize)` never ends: it reaches a
\* value that passes the test and that the addition does not increase
RECURSIVE LoopHangs(_, _, _, _)
LoopHangs(from, to, gridSize, inclusive) ==
  IF (inclusive /\ from <= to) \/ (~inclusive /\ from < to)
    THEN IF FAdd(from, gridSize) <= from THEN TRUE
         ELSE LoopHangs(FAdd(from, gridSize), to, gridSize, inclusive)
    ELSE FALSE

\* the nested loops never end: the outer one does not, or it has a first
\* iteration and the inner one does not
NestedLoopHangs(fromLat, toLat, fromLng, toLng, gridSize, inclusive) ==
  \/ LoopHangs(fromLat, toLat, gridSize, inclusive)
  \/ /\ (inclusive /\ fromLat <= toLat) \/ (~inclusive /\ fromLat < toLat)
     /\ LoopHangs(fromLng, toLng, gridSize, inclusive)

\* the (lat, lng) pairs of the nested loops, outer lat, inner lng, in order
NestedLoop(lats, lngs) ==
  [i \in 1..(Len(lats) * Len(lngs)) |->
     <<lats[((i - 1) \div Len(lngs)) + 1], lngs[((i - 1) % Len(lngs)) + 1]>>]

\* the iterations of `for (lat ...) for (lng ...)`: the inner loop is only
\* evaluated when the outer one has an iteration
NestedLoopValues(fromLat, toLat, fromLng, toLng, gridSize, inclusive) ==
  LET lats == LoopValues(fromLat, toLat, gridSize, inclusive)
  IN IF lats = <<>> THEN <<>>
     ELSE NestedLoop(lats, LoopValues(fromLng, toLng, gridSize, inclusive))

\* a grid is the object createGrid builds: `cells` maps a key to its cell,
\* `order` is the order Object.entries lists the keys in (first insertion)
EmptyGrid == [order |-> <<>>, cells |-> EmptyObject]

\* the body of createGrid's inner loop, for each iteration in turn
RECURSIVE GridFill(_, _, _)
GridFill(grid, iters, gridSize) ==
  IF iters = <<>> THEN grid
  ELSE LET lat == Head(iters)[1]
           lng == Head(iters)[2]
           cellKey == GetCellKey(lat, lng, gridSize)
           cell == [bounds |-> [minLat |-> lat, maxLat |-> FAdd(lat, gridSize),
                                minLng |-> lng, maxLng |-> FAdd(lng, gridSize)],
                    features |-> <<>>]
       IN GridFill([order |-> IF cellKey \in DOMAIN grid.cells THEN grid.order
                              ELSE Append(grid.order, cellKey),
                    cells |-> PutKey(grid.cells, cellKey, cell)],
                   Tail(iters), gridSize)

\* createGrid does not return (it loops until the process is killed or out
\* of memory)
CreateGridHangs(bounds, gridSize) ==
  /\ ~bounds.empty
  /\ gridSize # 0
  /\ NestedLoopHangs(FSub(FloorCell(bounds.minLat, gridSize), gridSize),
                     FAdd(CeilCell(bounds.maxLat, gridSize), gridSize),
                     FSub(FloorCell(bounds.minLng, gridSize), gridSize),
                     FAdd(CeilCell(bounds.maxLng, gridSize), gridSize),
                     gridSize, FALSE)

\* createGrid(bounds, gridSize), when it returns.  With the empty bounds
\* every loop limit is +-Infinity and `Infinity < -Infinity` ends the loop at
\* once.  With gridSize 0 every quotient is +-Infinity or NaN, every limit is
\* NaN (Infinity * 0) and `NaN < NaN` ends the loop at once.
CreateGrid(bounds, gridSize) ==
  IF bounds.empty \/ gridSize = 0 THEN EmptyGrid
  ELSE LET minLat == FSub(FloorCell(bounds.minLat, gridSize), gridSize)
           maxLat == FAdd(CeilCell(bounds.maxLat, gridSize), gridSize)
           minLng == FSub(FloorCell(bounds.minLng, gridSize), gridSize)
           maxLng == FAdd(CeilCell(bounds.maxLng, gridSize), gridSize)
       IN GridFill(EmptyGrid,
                   NestedLoopValues(minLat, maxLat, minLng, maxLng, gridSize, FALSE),
                   gridSize)

\* the concatenation of a sequence of sequences (push(...ring) for each ring)
RECURSIVE Flatten(_)
Flatten(seqs) == IF seqs = <<>> THEN <<>> ELSE Head(seqs) \o Flatten(Tail(seqs))

\* geometry: null
NullGeometry == [type |-> "null"]

\* getAllCoordinates(geometry): the [lng, lat] vertices of a geometry
RECURSIVE GetAllCoordinates(_)
GetAllCoordinates(geometry) ==
  LET RECURSIVE Members(_)
      Members(geoms) ==
        IF geoms = <<>> THEN <<>>
        ELSE GetAllCoordinates(Head(geoms)) \o Members(Tail(geoms))
  IN CASE geometry.type = "null" -> <<>>
       [] geometry.type = "Point" -> <<geometry.coordinates>>
       [] geometry.type \in {"LineString", "MultiPoint"} -> geometry.coordinates
       [] geometry.type \in {"Polygon", "MultiLineString"} ->
            Flatten(geometry.coordinates)
       [] geometry.type = "MultiPolygon" ->
            Flatten(Flatten(geometry.coordinates))
       [] geometry.type = "GeometryCollection" -> Members(geometry.geometries)
       [] OTHER -> <<>>

\* bounds widened by the vertices [lng, lat] of coords, in order
RECURSIVE FoldBounds(_, _)
FoldBounds(bounds, coords) ==
  IF coords = <<>> THEN bounds
  ELSE LET lng == Head(coords)[1]
           lat == Head(coords)[2]
       IN FoldBounds(
            IF bounds.empty
              THEN [empty |-> FALSE,
                    minLat |-> lat, maxLat |-> lat, minLng |-> lng, maxLng |-> lng]
              ELSE [empty |-> FALSE,
                    minLat |-> Min(bounds.minLat, lat),
                    maxLat |-> Max(bounds.maxLat, lat),
                    minLng |-> Min(bounds.minLng, lng),
                    maxLng |-> Max(bounds.maxLng, lng)],
            Tail(coords))

\* the body of assignFeaturesToGrid's inner loop, for each iteration in turn
RECURSIVE PushFeature(_, _, _, _)
PushFeature(grid, iters, feature, gridSize) ==
  IF iters = <<>> THEN grid
  ELSE LET cellKey == GetCellKey(Head(iters)[1], Head(iters)[2], gridSize)
       IN PushFeature(
            IF cellKey \in DOMAIN grid.cells
              THEN [grid EXCEPT !.cells[cellKey].features = Append(@, feature)]
              ELSE grid,
            Tail(iters), feature, gridSize)

\* assignFeaturesToGrid does not return
AssignFeaturesToGridHangs(feature, gridSize) ==
  LET featureBounds == FoldBounds(EmptyBounds, GetAllCoordinates(feature.geometry))
  IN /\ feature.geometry.type # "null"
     /\ gridSize # 0
     /\ ~featureBounds.empty
     /\ NestedLoopHangs(FloorCell(featureBounds.minLat, gridSize),
                        FloorCell(featureBounds.maxLat, gridSize),
                        FloorCell(featureBounds.minLng, gridSize),
                        FloorCell(featureBounds.maxLng, gridSize),
                        gridSize, TRUE)

\* (mutant) the feature is pushed to every cell of the grid
AssignFeaturesToGridEverywhere(feature, grid, gridSize) ==
  [grid EXCEPT !.cells =
     [k \in DOMAIN grid.cells |->
        [grid.cells[k] EXCEPT !.features = Append(@, feature)]]]

\* assignFeaturesToGrid(feature, grid, gridSize), when it returns.  With no
\* vertex the feature bounds stay +-Infinity and no loop body runs; with
\* gridSize 0 the loop limits are NaN and no loop body runs.
AssignFeaturesToGrid(feature, grid, gridSize) ==
  IF feature.geometry.type = "null" \/ gridSize = 0 THEN grid
  ELSE LET featureBounds ==
             FoldBounds(EmptyBounds, GetAllCoordinates(feature.geometry))
       IN IF featureBounds.empty THEN grid
          ELSE LET minLatCell == FloorCell(featureBounds.minLat, gridSize)
                   maxLatCell == FloorCell(featureBounds.maxLat, gridSize)
                   minLngCell == FloorCell(featureBounds.minLng, gridSize)
                   maxLngCell == FloorCell(featureBounds.maxLng, gridSize)
               IN PushFeature(grid,
                    NestedLoopValues(minLatCell, maxLatCell, minLngCell, maxLngCell,
                                     gridSize, TRUE),
                    feature, gridSize)

\* sum of featureCount over the entries of a cell mapping
\* (Object.values(cells).reduce((sum, cell) => sum + cell.featureCount, 0))
RECURSIVE SumFeatureCount(_)
SumFeatureCount(cells) ==
  IF DOMAIN cells = {} THEN 0
  ELSE LET k == CHOOSE x \in DOMAIN cells : TRUE
       IN cells[k].featureCount
            + SumFeatureCount([x \in DOMAIN cells \ {k} |-> cells[x]])

\* (mutant) the latitude component is used for both components of the name
TileFilenameLatOnly(cellKey) == <<"parcels_", <<cellKey[1], cellKey[1]>>, ".json">>

\* `parcels_${cellKey}.json`
TileFilename(cellKey) == <<"parcels_", cellKey, ".json">>

\* (mutant) the loop does not skip the cells without features
WritableEvenIfEmpty(grid, cellKey) == "features" \in DOMAIN grid.cells[cellKey]

\* writeGridFiles: a cell the loop still has to write (not yet finalized,
\* at least one feature), and the first of them in Object.entries order
Writable(grid, cellKey) ==
  /\ "features" \in DOMAIN grid.cells[cellKey]
  /\ Len(grid.cells[cellKey].features) # 0
HasWritable(grid) == \E i \in 1..Len(grid.order) : Writable(grid, grid.order[i])
NextWritable(grid) ==
  grid.order[CHOOSE i \in 1..Len(grid.order) :
               /\ Writable(grid, grid.order[i])
               /\ \A j \in 1..(i - 1) : ~Writable(grid, grid.order[j])]

\* (mutant) the count is taken after the features array is gone
FinalizedCellNoCount(cell, filename) ==
  [bounds |-> cell.bounds, filename |-> filename, featureCount |-> 0]

\* writeGridFiles: the cell after its tile is written: filename and
\* featureCount set, the features array deleted
FinalizedCell(cell, filename) ==
  [bounds |-> cell.bounds, filename |-> filename,
   featureCount |-> Len(cell.features)]

\* createIndexFile: the entries of the cells that have a filename
NonEmptyCells(grid) ==
  [k \in {x \in DOMAIN grid.cells : "filename" \in DOMAIN grid.cells[x]} |->
     [bounds |-> grid.cells[k].bounds,
      filename |-> grid.cells[k].filename,
      featureCount |-> grid.cells[k].featureCount]]

\* the index file on disk: absent, text JSON.parse rejects, or a JSON document
AbsentFile == [exists |-> FALSE]
UnparseableFile == [exists |-> TRUE, parses |-> FALSE]
JsonFile(doc) == [exists |-> TRUE, parses |-> TRUE, doc |-> doc]
\* a JSON document: null, or an object (a mapping from names)
JsonNull == [isNull |-> TRUE]
JsonObject(obj) == [isNull |-> FALSE, obj |-> obj]

\* createIndexFile, lines 193-208: what the try block leaves in
\* existingIndex, existingCells and totalExistingFeatures.  readJson of
\* `null` assigns existingIndex and then `.cells` throws inside the try.
ReadExistingIndex(file) ==
  IF ~file.exists \/ ~file.parses
    THEN [existingIndex |-> JsonObject(EmptyObject),
          existingCells |-> EmptyObject, totalExistingFeatures |-> 0]
  ELSE IF file.doc.isNull
    THEN [existingIndex |-> JsonNull,
          existingCells |-> EmptyObject, totalExistingFeatures |-> 0]
  ELSE LET obj == file.doc.obj
       IN [existingIndex |-> file.doc,
           existingCells |-> IF "cells" \in DOMAIN obj THEN obj.cells
                             ELSE EmptyObject,
           totalExistingFeatures |->
             IF "metadata" \in DOMAIN obj
                /\ "totalFeatures" \in DOMAIN obj.metadata
               THEN obj.metadata.totalFeatures ELSE 0]

\* (mutant) the prior cells are dropped
MergeCellsNewOnly(existing, new) == new

\* (mutant) the spread is the other way round: a prior entry wins
MergeCellsPriorWins(existing, new) ==
  [k \in DOMAIN existing \cup DOMAIN new |->
     IF k \in DOMAIN existing THEN existing[k] ELSE new[k]]

\* { ...existingCells, ...nonEmptyCells }
MergeCells(existing, new) ==
  [k \in DOMAIN existing \cup DOMAIN new |->
     IF k \in DOMAIN new THEN new[k] ELSE existing[k]]

\* (mutant) the prior total is left out
TotalFeaturesNewOnly(totalExistingFeatures, new) == SumFeatureCount(new)

\* totalExistingFeatures + newFeatures
TotalFeatures(totalExistingFeatures, new) ==
  totalExistingFeatures + SumFeatureCount(new)

\* (mutant) every run is taken for the first
HasGeneratedAtNever(obj) == FALSE

\* existingIndex.metadata?.generatedAt is set (existingIndex not null)
HasGeneratedAt(obj) ==
  "metadata" \in DOMAIN obj /\ "generatedAt" \in DOMAIN obj.metadata

\* the index object createIndexFile writes (lines 210-232), at time `now`
BuildIndex(read, new, gridSize, now) ==
  LET mergedCells == MergeCells(read.existingCells, new)
  IN [gridSize |-> gridSize,
      cells |-> mergedCells,
      metadata |->
        [totalCells |-> Cardinality(DOMAIN mergedCells),
         totalFeatures |-> TotalFeatures(read.totalExistingFeatures, new),
         lastUpdated |-> now,
         generatedAt |-> IF HasGeneratedAt(read.existingIndex.obj)
                           THEN read.existingIndex.obj.metadata.generatedAt
                           ELSE now]]

\* ------------------------------------------ projection (lib/projection.js)
\* the text of a .prj file, as far as parseShapefileProjection can tell:
\* whether it includes 'GEOGCS["GCS_WGS_1984"' or 'GEOGCS["WGS 84"', and
\* whether proj4 accepts it (proj4 throws on text it cannot parse or on a
\* projection it does not support)
PrjContent(wgs84, parses) == [wgs84 |-> wgs84, parses |-> parses]

\* projectionTransform: null, or the object proj4 returns.  proj4 is given by
\* the points on which its forward throws (`fails`); on the others forward
\* maps projected units to degrees.
NoTransform == [isNull |-> TRUE]
Proj4Transform(fails) == [isNull |-> FALSE, fails |-> fails]
UnitsPerDegree == 2
Forward(point) == <<point[1] \div UnitsPerDegree, point[2] \div UnitsPerDegree>>

\* (mutant) the catch block of parseShapefileProjection rethrows
ParseShapefileProjectionRethrows(prjContent, fails) ==
  IF prjContent.wgs84 THEN [threw |-> FALSE, transform |-> NoTransform]
  ELSE IF ~prjContent.parses THEN [threw |-> TRUE, transform |-> NoTransform]
  ELSE [threw |-> FALSE, transform |-> Proj4Transform(fails)]

\* parseShapefileProjection(prjContent): what it returns, and whether it
\* threw (it never does: the catch block returns null)
ParseShapefileProjection(prjContent, fails) ==
  IF prjContent.wgs84 THEN [threw |-> FALSE, transform |-> NoTransform]
  ELSE IF ~prjContent.parses THEN [threw |-> FALSE, transform |-> NoTransform]
  ELSE [threw |-> FALSE, transform |-> Proj4Transform(fails)]

\* (mutant) a vertex that cannot be transformed is replaced by the origin
TransformPointZero(point, transform) ==
  IF point \in transform.fails THEN <<0, 0>> ELSE Forward(point)

\* transformPoint(point, transform): forward's result, or the point itself
\* when forward throws
TransformPoint(point, transform) ==
  IF point \in transform.fails THEN point ELSE Forward(point)

\* transformCoordinates(feature, transform): the switch has a case for each
\* of the six coordinate types and none for GeometryCollection
TransformCoordinates(feature, transform) ==
  LET geometry == feature.geometry
      Point(pt) == TransformPoint(pt, transform)
      Line(line) == [i \in 1..Len(line) |-> Point(line[i])]
      Polygon(polygon) == [i \in 1..Len(polygon) |-> Line(polygon[i])]
      MultiPolygon(polygons) == [i \in 1..Len(polygons) |-> Polygon(polygons[i])]
  IN IF transform.isNull \/ geometry.type = "null" THEN feature
     ELSE CASE geometry.type = "Point" ->
                 [feature EXCEPT !.geometry.coordinates = Point(@)]
            [] geometry.type \in {"LineString", "MultiPoint"} ->
                 [feature EXCEPT !.geometry.coordinates = Line(@)]
            [] geometry.type \in {"Polygon", "MultiLineString"} ->
                 [feature EXCEPT !.geometry.coordinates = Polygon(@)]
            [] geometry.type = "MultiPolygon" ->
                 [feature EXCEPT !.geometry.coordinates = MultiPolygon(@)]
            [] OTHER -> feature

\* ------------------------------------------- attributes (lib/optimize.js)
\* the attributes of a feature: null, or an object.  An object lists its
\* names in insertion order (`order`) and maps each to its value (`vals`);
\* a value is written as a string, Undefined being the value `undefined`.
NoProperties == [isNull |-> TRUE]
Properties(order, vals) == [isNull |-> FALSE, order |-> order, vals |-> vals]
EmptyProperties == Properties(<<>>, EmptyObject)
Undefined == "undefined"

\* properties[prop]
GetProp(properties, prop) ==
  IF prop \in DOMAIN properties.vals THEN properties.vals[prop] ELSE Undefined

\* optimized[prop] = value
SetProp(optimized, prop, value) ==
  Properties(IF prop \in DOMAIN optimized.vals THEN optimized.order
             ELSE Append(optimized.order, prop),
             PutKey(optimized.vals, prop, value))

\* (mutant) the test of line 14 is `=== undefined`
KeepsPropInverted(properties, prop) == GetProp(properties, prop) = Undefined

\* line 14: properties[prop] !== undefined
KeepsProp(properties, prop) == GetProp(properties, prop) # Undefined

\* the loop of lines 13-17 over the names still to visit
RECURSIVE OptimizeLoop(_, _, _)
OptimizeLoop(optimized, properties, props) ==
  IF props = <<>> THEN optimized
  ELSE OptimizeLoop(IF KeepsProp(properties, Head(props))
                      THEN SetProp(optimized, Head(props),
                                   GetProp(properties, Head(props)))
                      ELSE optimized,
                    properties, Tail(props))

\* (mutant) the attributes are returned as they are
OptimizePropertiesKeepsAll(properties, propertiesToKeep) ==
  IF properties.isNull THEN EmptyProperties ELSE properties

\* optimizeProperties(properties, propertiesToKeep)
OptimizeProperties(properties, propertiesToKeep) ==
  IF properties.isNull THEN EmptyProperties
  ELSE OptimizeLoop(EmptyProperties, properties, propertiesToKeep)

\* the default of --properties, split at the commas
DefaultProperties ==
  <<"APN", "StreetNumb", "StreetName", "StreetType", "StreetDir", "City", "ZipCode">>

\* ------------------------------------- map client (PropertyBoundaries.tsx)
\* the keys the nested loops of getGridCellsForBounds build, in order: the
\* loop variables themselves under toFixed(6)
ClientCellKeys(gridSz, b) ==
  LET minLatCell == FloorCell(b.south, gridSz)
      maxLatCell == FloorCell(b.north, gridSz)
      minLngCell == FloorCell(b.west, gridSz)
      maxLngCell == FloorCell(b.east, gridSz)
      iters == NestedLoopValues(minLatCell, maxLatCell, minLngCell, maxLngCell,
                                gridSz, TRUE)
  IN [i \in 1..Len(iters) |-> <<ToFixed(iters[i][1]), ToFixed(iters[i][2])>>]

\* the entries pushed for the keys that cells has, in order
RECURSIVE LookUpCells(_, _)
LookUpCells(cells, keys) ==
  IF keys = <<>> THEN <<>>
  ELSE (IF Head(keys) \in DOMAIN cells THEN <<cells[Head(keys)]>> ELSE <<>>)
         \o LookUpCells(cells, Tail(keys))

\* getGridCellsForBounds(index, bounds)
GetGridCellsForBounds(index, b) ==
  LookUpCells(index.cells, ClientCellKeys(index.gridSize, b))

\* ------------------------------------------------------------------ inputs
\* a closed rectangular ring, as a Polygon geometry
Rect(w, s, e, n) ==
  [type |-> "Polygon",
   coordinates |-> << << <<w, s>>, <<e, s>>, <<e, n>>, <<w, n>>, <<w, s>> >> >>]
PointAt(lng, lat) == [type |-> "Point", coordinates |-> <<lng, lat>>]

\* the record number fid of the shapefile: its geometry, and the attributes
\* of its .dbf row (a parcel number, and a column the default list drops)
Apns == <<"101", "102", "103", "104">>
Feature(fid, geometry) ==
  [geometry |-> geometry,
   properties |-> Properties(<<"OBJECTID", "APN">>,
                             [n \in {"OBJECTID", "APN"} |-> Apns[fid]])]

\* the --grid-size options tried: 4 is a power of two (every multiple in
\* range is exact), 3 is not
GridSizes == {3, 4}

\* the geometries of the repeated-run specification: a parcel west, a parcel
\* east, one across the two, and a point (which the first pass ignores)
West == Rect(0, 0, 2, 2)
East == Rect(5, 0, 7, 2)
Across == Rect(2, 0, 5, 2)
RunGeometries == {West, East, Across, PointAt(1, 1)}

\* the coordinates of the single-run specification
Lngs == {x \in {-8, -6, 0, 5, 7} : Representable(x)}
Lats == {x \in {0, 2, 5} : Representable(x)}
GridGeometries ==
  {Rect(w, s, e, n) : <<w, e>> \in {p \in Lngs \X Lngs : p[1] < p[2]},
                      <<s, n>> \in {p \in Lats \X Lats : p[1] < p[2]}}
    \cup {PointAt(0, 0), PointAt(7, 5)}

\* the datasets, their features numbered in file order: a few for the
\* repeated runs; for the single run every geometry, followed by up to
\* MaxFeatures - 1 more features
RECURSIVE SeqsUpTo(_, _)
SeqsUpTo(S, n) ==
  IF n = 0 THEN {<<>>}
  ELSE LET shorter == SeqsUpTo(S, n - 1)
       IN shorter \cup {Append(q, x) : q \in {r \in shorter : Len(r) = n - 1}, x \in S}
Numbered(geoms) == [i \in 1..Len(geoms) |-> Feature(i, geoms[i])]
RunDatasets ==
  {Numbered(q) : q \in {<<West>>, <<East>>, <<Across, West>>, <<PointAt(1, 1)>>}}
GridDatasets ==
  {Numbered(<<g>> \o q) : g \in GridGeometries,
                          q \in SeqsUpTo(RunGeometries, MaxFeatures - 1)}

\* the arguments of optimizeProperties called on its own: the attributes are
\* null or an object with some of three names (OWNER is never listed), each
\* with a value, null or undefined; the list has up to MaxAllowList names
\* (ZipCode is never present), duplicates included
PropertyNames == <<"OWNER", "City", "APN">>
PropertyValues == {Undefined, "null", "7"}
AllowNames == {"APN", "City", "ZipCode"}
PropertyInputs ==
  {NoProperties} \cup
  UNION {{Properties(SelectSeq(PropertyNames, LAMBDA n : n \in names), vals) :
            vals \in [names -> PropertyValues]} :
         names \in SUBSET Range(PropertyNames)}
AllowLists == SeqsUpTo(AllowNames, MaxAllowList)

\* geometries without a vertex, and the features and bounds handed to the
\* grid functions when they are called on their own
EmptyPolygon == [type |-> "Polygon", coordinates |-> <<>>]
EmptyCollection == [type |-> "GeometryCollection", geometries |-> <<>>]
NullMember == [type |-> "GeometryCollection", geometries |-> <<NullGeometry>>]
LibraryGeometries ==
  {NullGeometry, EmptyPolygon, EmptyCollection, NullMember, West, PointAt(5, 1)}
LibraryFeatures == {Numbered(q) : q \in SeqsUpTo(LibraryGeometries, MaxFeatures)}
LibraryBounds ==
  {FoldBounds(EmptyBounds, GetAllCoordinates(g)) : g \in {West, Across, East}}

\* the files of a directory or of a ZIP archive, by name <<base, extension>>:
\* a .shp file (with its .dbf) holds features, a .prj file holds text
EmptyDir == <<>>
Zip(base, features) == <<base, "shp">> :> [features |-> features]
ZipWithPrj(base, features, prjContent) ==
  Zip(base, features) @@ (<<base, "prj">> :> [content |-> prjContent])
\* zip.extractAllTo(tempDir, true): the archive's files overwrite
ExtractAllTo(dir, zip) == zip @@ dir

\* the points on which proj4's forward throws: none, or one vertex
ForwardFailures == {{}, {<<4, 0>>}}

\* .prj texts: one that includes a WGS 84 GEOGCS, a projection proj4
\* supports, and text proj4 rejects
PrjContents ==
  {PrjContent(TRUE, TRUE), PrjContent(FALSE, TRUE), PrjContent(FALSE, FALSE)}

\* datasets in projected units, one with a GeometryCollection
Collection(geometries) == [type |-> "GeometryCollection", geometries |-> geometries]
ProjectedDatasets ==
  {Numbered(q) : q \in {<<Rect(0, 0, 4, 4)>>,
                        <<Rect(0, 0, 4, 4), Rect(10, 0, 14, 4)>>,
                        <<Rect(0, 0, 4, 4), Collection(<<Rect(0, 0, 4, 4)>>)>>}}
ProjectedArchives ==
  {Zip("parcels", ds) : ds \in ProjectedDatasets} \cup
  {ZipWithPrj("parcels", ds, prj) : ds \in ProjectedDatasets, prj \in PrjContents}

\* the map of the tile loader: two parcels in two cells of size 4, and
\* views of the first cell, of the second, and of both
LoaderDatasets == {Numbered(<<West, East>>)}
LoaderGridSizes == {4}
View(w, e) == [south |-> 0, north |-> 2, west |-> w, east |-> e]
LoaderViewports == {View(0, 2), View(5, 7), View(0, 7)}

\* the bounds of the map after a move: map.getBounds()
Viewports ==
  {[moved |-> TRUE, south |-> p[1], north |-> p[2], west |-> q[1], east |-> q[2]] :
     p \in {x \in Lats \X Lats : x[1] <= x[2]},
     q \in {x \in Lngs \X Lngs : x[1] <= x[2]}}

\* ------------------------------------------------------------------- state
VARIABLES
  pc,             \* where the `process` action is
  runs,           \* invocations started so far
  clock,          \* the wall clock (new Date())
  error,          \* what the catch block of the action printed, or "none"
  shapefile,      \* the features of the extracted .shp, in file order
  gridSize,       \* parseFloat(options.gridSize)
  bounds,         \* the bounds of the first pass
  grid,           \* the grid
  nextFeature,    \* the record the second pass reads next
  tiles,          \* the tile files of the output directory, by filename
  indexFile,      \* the index file of the output directory
  existingIndex,  \* createIndexFile's local, as the last call left it
  existingCells,  \* createIndexFile's local, as the last call left it
  nonEmptyCells,  \* createIndexFile's local, as the last call left it
  propertiesToKeep, \* options.properties.split(',')
  properties,     \* optimizeProperties called on its own: the attributes given
  optimized,      \* ... what the last call returned
  calls,          \* ... how many calls were made, each on the result before
  viewport,       \* the map client: the bounds of the map, once it has moved
  cellKeys,       \* ... the keys getGridCellsForBounds looked up, in order
  relevantCells,  \* ... the index entries it returned
  tempDir,        \* the files of <output>/_temp, by name
  projectionTransform, \* null, or what parseShapefileProjection returned
  zipfile,        \* the files of the archive given to the invocation
  parcelIndex,    \* the map client: the index it fetched, once it has
  mapBounds,      \* ... map.getBounds()
  unavailable,    \* ... the tile filenames the server does not answer ok for
  loadedCells,    \* ... the state loadedCells
  handlerCells,   \* ... loadedCells as the registered handleMoveEnd captured it
  renderPending,  \* ... setLoadedCells was called and the effect has not re-run
  debounceTimerRef, \* ... the pending timer, with the loadedCells of its closure
  isLoadingRef,   \* ... isLoadingRef.current
  lastBoundsRef,  \* ... lastBoundsRef.current
  fetchQueue,     \* ... the filenames the running callback fetches, first in flight
  parcelLayer,    \* ... the filenames whose data addData was called with, in order
  moves           \* ... moveend and zoomend events so far

vars == <<pc, runs, clock, error, shapefile, gridSize, bounds, grid, nextFeature,
          tiles, indexFile, existingIndex, existingCells, nonEmptyCells,
          propertiesToKeep, properties, optimized, calls,
          viewport, cellKeys, relevantCells, tempDir, projectionTransform,
          zipfile, parcelIndex, mapBounds, unavailable, loadedCells,
          handlerCells, renderPending, debounceTimerRef, isLoadingRef,
          lastBoundsRef, fetchQueue, parcelLayer, moves>>

runVars == <<shapefile, gridSize, bounds, grid, nextFeature>>
diskVars == <<tiles, indexFile>>
indexLocals == <<existingIndex, existingCells, nonEmptyCells>>
optimizerVars == <<properties, optimized, calls>>
clientVars == <<viewport, cellKeys, relevantCells>>
extractedVars == <<tempDir, projectionTransform, zipfile>>
loaderVars == <<parcelIndex, mapBounds, unavailable, loadedCells, handlerCells,
                renderPending, debounceTimerRef, isLoadingRef, lastBoundsRef,
                fetchQueue, parcelLayer, moves>>
\* what no step of the `process` action touches
outsideRun == <<propertiesToKeep, properties, optimized, calls,
                viewport, cellKeys, relevantCells, loaderVars>>

\* no map has moved yet
NoViewport == [moved |-> FALSE]

\* the map client before the index is fetched: parcelIndex null, no timer,
\* lastBoundsRef ''
NoIndex == [loaded |-> FALSE]
NoTimer == [pending |-> FALSE]
Timer(cells) == [pending |-> TRUE, loadedCells |-> cells]
NoBoundsKey == <<>>

InitState(file, attributes, list) ==
  /\ pc = "idle"
  /\ runs = 0
  /\ clock = 0
  /\ error = "none"
  /\ shapefile = <<>>
  /\ gridSize = 0
  /\ bounds = EmptyBounds
  /\ grid = EmptyGrid
  /\ nextFeature = 1
  /\ tiles = EmptyObject
  /\ indexFile = file
  /\ existingIndex = JsonObject(EmptyObject)
  /\ existingCells = EmptyObject
  /\ nonEmptyCells = EmptyObject
  /\ propertiesToKeep = list
  /\ properties = attributes
  /\ optimized = EmptyProperties
  /\ calls = 0
  /\ viewport = NoViewport
  /\ cellKeys = <<>>
  /\ relevantCells = <<>>
  /\ tempDir = EmptyDir
  /\ projectionTransform = NoTransform
  /\ zipfile = EmptyDir
  /\ parcelIndex = NoIndex
  /\ mapBounds = NoViewport
  /\ unavailable = {}
  /\ loadedCells = {}
  /\ handlerCells = {}
  /\ renderPending = FALSE
  /\ debounceTimerRef = NoTimer
  /\ isLoadingRef = FALSE
  /\ lastBoundsRef = NoBoundsKey
  /\ fetchQueue = <<>>
  /\ parcelLayer = <<>>
  /\ moves = 0

\* before the first invocation, with the default --properties
InitWith(file) == InitState(file, NoProperties, DefaultProperties)

\* an output directory with no index file
Init == InitWith(AbsentFile)

\* an output directory that already holds something under the index name
ExistingFiles ==
  {AbsentFile, UnparseableFile, JsonFile(JsonNull), JsonFile(JsonObject(EmptyObject))}
InitExisting == \E file \in ExistingFiles : InitWith(file)

\* --------------------------------------------------------------- operations
\* the `process` action up to the first pass: a new invocation, later than
\* the one before, on one of the datasets with one of the grid sizes
StartRunFrom(archives, sizes) ==
  /\ pc \in {"idle", "done", "failed", "hung"}
  /\ runs < MaxRuns
  /\ \E zip \in archives, g \in sizes, fails \in ForwardFailures :
       LET files == ExtractAllTo(tempDir, zip)
           shpFiles == {f \in DOMAIN files : f[2] = "shp"}
           prjFiles == {f \in DOMAIN files : f[2] = "prj"}
       IN /\ zipfile' = zip
          /\ tempDir' = files
          /\ gridSize' = g
          /\ IF shpFiles = {}
               THEN /\ pc' = "failed"
                    /\ error' = "No .shp file found in the ZIP archive"
                    /\ shapefile' = <<>>
                    /\ projectionTransform' = NoTransform
               ELSE \E shpFile \in shpFiles :
                      /\ shapefile' = files[shpFile].features
                      /\ IF prjFiles = {}
                           THEN /\ pc' = "bounds"
                                /\ error' = "none"
                                /\ projectionTransform' = NoTransform
                           ELSE \E prjFile \in prjFiles :
                                  LET parsed == ParseShapefileProjection(
                                                  files[prjFile].content, fails)
                                  IN /\ pc' = IF parsed.threw THEN "failed" ELSE "bounds"
                                     /\ error' = IF parsed.threw THEN "proj4 threw"
                                                                 ELSE "none"
                                     /\ projectionTransform' = parsed.transform
  /\ runs' = runs + 1
  /\ clock' = clock + 1
  /\ bounds' = EmptyBounds
  /\ grid' = EmptyGrid
  /\ nextFeature' = 1
  /\ existingIndex' = JsonObject(EmptyObject)
  /\ existingCells' = EmptyObject
  /\ nonEmptyCells' = EmptyObject
  /\ UNCHANGED diskVars
  /\ UNCHANGED outsideRun

\* the archive holds one shapefile, parcels.shp, and no .prj file
StartRunWith(datasets, sizes) ==
  StartRunFrom({Zip("parcels", ds) : ds \in datasets}, sizes)

StartRun(datasets) == StartRunWith(datasets, GridSizes)

\* the first pass (part_008 lines 86-111): Polygon and MultiPolygon
\* vertices widen the bounds
RECURSIVE ScanBounds(_, _)
ScanBounds(b, features) ==
  IF features = <<>> THEN b
  ELSE LET geometry == Head(features).geometry
           coordinates ==
             IF geometry.type = "Polygon" THEN <<geometry.coordinates>>
             ELSE IF geometry.type = "MultiPolygon" THEN geometry.coordinates
             ELSE <<>>
       IN ScanBounds(FoldBounds(b, Flatten(Flatten(coordinates))), Tail(features))

\* both passes: feature = transformCoordinates(feature, projectionTransform)
\* when projectionTransform is not null
Transformed(feature) ==
  IF projectionTransform.isNull THEN feature
  ELSE TransformCoordinates(feature, projectionTransform)

\* line 95 reads feature.value.geometry.type: a record with a null geometry
\* throws a TypeError there, and the action's catch block exits
HasNullGeometry(features) ==
  \E i \in 1..Len(features) : features[i].geometry.type = "null"

BoundsPass ==
  /\ pc = "bounds"
  /\ IF HasNullGeometry(shapefile)
       THEN /\ pc' = "failed"
            /\ error' = "TypeError: reading 'type' of null"
            /\ bounds' = bounds
       ELSE /\ pc' = "grid"
            /\ error' = error
            /\ bounds' = ScanBounds(EmptyBounds,
                                     [i \in 1..Len(shapefile) |-> Transformed(shapefile[i])])
  /\ UNCHANGED <<runs, clock, shapefile, gridSize, grid, nextFeature>>
  /\ UNCHANGED diskVars
  /\ UNCHANGED indexLocals
  /\ UNCHANGED outsideRun
  /\ UNCHANGED extractedVars

\* const grid = createGrid(bounds, gridSize)
CreateGridStep ==
  /\ pc = "grid"
  /\ IF CreateGridHangs(bounds, gridSize)
       THEN /\ pc' = "hung"
            /\ grid' = grid
       ELSE /\ pc' = IF Len(shapefile) = 0 THEN "write" ELSE "assign"
            /\ grid' = CreateGrid(bounds, gridSize)
  /\ UNCHANGED <<runs, clock, error, shapefile, gridSize, bounds, nextFeature>>
  /\ UNCHANGED diskVars
  /\ UNCHANGED indexLocals
  /\ UNCHANGED outsideRun
  /\ UNCHANGED extractedVars

\* the feature the second pass hands to assignFeaturesToGrid: its
\* attributes replaced by optimizeProperties' result (line 145)
Optimized(feature) ==
  [feature EXCEPT !.properties = OptimizeProperties(@, propertiesToKeep)]

\* one iteration of the second pass
AssignStep ==
  /\ pc = "assign"
  /\ IF AssignFeaturesToGridHangs(Transformed(shapefile[nextFeature]), gridSize)
       THEN /\ pc' = "hung"
            /\ grid' = grid
            /\ nextFeature' = nextFeature
       ELSE /\ pc' = IF nextFeature = Len(shapefile) THEN "write" ELSE "assign"
            /\ grid' = AssignFeaturesToGrid(
                         Optimized(Transformed(shapefile[nextFeature])),
                         grid, gridSize)
            /\ nextFeature' = nextFeature + 1
  /\ UNCHANGED <<runs, clock, error, shapefile, gridSize, bounds>>
  /\ UNCHANGED diskVars
  /\ UNCHANGED indexLocals
  /\ UNCHANGED outsideRun
  /\ UNCHANGED extractedVars

\* writeGridFiles: the loop reaches the next cell with features, writes its
\* tile and finalizes the cell
WriteTile ==
  /\ pc = "write"
  /\ HasWritable(grid)
  /\ LET cellKey == NextWritable(grid)
         cell == grid.cells[cellKey]
         filename == TileFilename(cellKey)
     IN /\ tiles' = PutKey(tiles, filename,
                           [type |-> "FeatureCollection", features |-> cell.features])
        /\ grid' = [grid EXCEPT !.cells[cellKey] = FinalizedCell(cell, filename)]
  /\ UNCHANGED <<pc, runs, clock, error, shapefile, gridSize, bounds, nextFeature,
                 indexFile>>
  /\ UNCHANGED indexLocals
  /\ UNCHANGED outsideRun
  /\ UNCHANGED extractedVars

\* (mutant) the rejection is swallowed and the action goes on to the index
WriteTileFailsIgnored ==
  /\ pc = "write"
  /\ HasWritable(grid)
  /\ pc' = "index"
  /\ error' = "writeJson failed"
  /\ UNCHANGED <<runs, clock>>
  /\ UNCHANGED runVars
  /\ UNCHANGED diskVars
  /\ UNCHANGED indexLocals
  /\ UNCHANGED outsideRun
  /\ UNCHANGED extractedVars

\* writeGridFiles: fs.writeJson of a tile rejects; the action's catch block
\* prints the error and exits
WriteTileFails ==
  /\ pc = "write"
  /\ HasWritable(grid)
  /\ pc' = "failed"
  /\ error' = "writeJson failed"
  /\ UNCHANGED <<runs, clock>>
  /\ UNCHANGED runVars
  /\ UNCHANGED diskVars
  /\ UNCHANGED indexLocals
  /\ UNCHANGED outsideRun
  /\ UNCHANGED extractedVars

\* writeGridFiles returns: no cell is left to write
WriteGridFilesReturns ==
  /\ pc = "write"
  /\ ~HasWritable(grid)
  /\ pc' = "index"
  /\ UNCHANGED <<runs, clock, error>>
  /\ UNCHANGED runVars
  /\ UNCHANGED diskVars
  /\ UNCHANGED indexLocals
  /\ UNCHANGED outsideRun
  /\ UNCHANGED extractedVars

\* createIndexFile(grid, outputDir, indexName, gridSize).  With existingIndex
\* null, `existingIndex.metadata?.generatedAt` (line 225) throws a TypeError
\* outside the try block, before the index is written.
CreateIndexFile ==
  /\ pc = "index"
  /\ LET new == NonEmptyCells(grid)
         read == ReadExistingIndex(indexFile)
     IN /\ nonEmptyCells' = new
        /\ existingIndex' = read.existingIndex
        /\ existingCells' = read.existingCells
        /\ IF read.existingIndex.isNull
             THEN /\ pc' = "failed"
                  /\ error' = "TypeError: reading 'metadata' of null"
                  /\ indexFile' = indexFile
                  /\ tempDir' = tempDir
             ELSE /\ pc' = "done"
                  /\ error' = error
                  /\ indexFile' = JsonFile(JsonObject(BuildIndex(read, new, gridSize, clock)))
                  /\ tempDir' = EmptyDir
  /\ UNCHANGED <<runs, clock, tiles, projectionTransform, zipfile>>
  /\ UNCHANGED runVars
  /\ UNCHANGED outsideRun

RunSteps ==
  \/ BoundsPass
  \/ CreateGridStep
  \/ AssignStep
  \/ WriteTile
  \/ WriteTileFails
  \/ WriteGridFilesReturns
  \/ CreateIndexFile

\* repeated invocations into one output directory
Next == StartRun(RunDatasets) \/ RunSteps
Spec == Init /\ [][Next]_vars

\* invocations on archives that may hold a .prj file
ProjectionGridSizes == {3}
StartProjectedRun == StartRunFrom(ProjectedArchives, ProjectionGridSizes)
NextProjection == StartProjectedRun \/ RunSteps
SpecProjection == Init /\ [][NextProjection]_vars

\* invocations on archives whose files have different names
NamedArchives ==
  {Zip("parcels", Numbered(<<West>>)),
   Zip("lots", Numbered(<<East>>)),
   ZipWithPrj("parcels", Numbered(<<Rect(0, 0, 4, 4)>>), PrjContent(FALSE, TRUE)),
   EmptyDir}
StartNamedRun == StartRunFrom(NamedArchives, GridSizes)
NextArchives == StartNamedRun \/ RunSteps
SpecArchives == Init /\ [][NextArchives]_vars

\* the same, from an output directory that may already hold an index file
SpecExisting == InitExisting /\ [][Next]_vars

\* a single invocation over the wider range of geometries
FirstRun == pc = "idle" /\ StartRun(GridDatasets)
NextGrid == FirstRun \/ RunSteps
SpecGrid == Init /\ [][NextGrid]_vars

\* repeated invocations whose --grid-size may also be zero or negative, on
\* the datasets above, on a parcel taller than two cells, and on a shapefile
\* whose first record has the null shape (geometry: null)
DegenerateGridSizes == {0, -1}
Tall == Rect(0, 0, 2, 5)
OptionDatasets ==
  RunDatasets \cup {Numbered(<<Tall>>), Numbered(<<NullGeometry, West>>)}
StartAnyRun == StartRunWith(OptionDatasets, GridSizes \cup DegenerateGridSizes)
NextOptions == StartAnyRun \/ RunSteps
SpecOptions == Init /\ [][NextOptions]_vars

\* the map client, with the index of the output directory loaded as
\* parcelIndex: the map has moved and the debounced handler runs
HandleMoveEnd ==
  /\ pc \in {"done", "failed"}
  /\ indexFile.exists /\ indexFile.parses /\ ~indexFile.doc.isNull
  /\ ~viewport.moved
  /\ \E b \in Viewports :
       /\ viewport' = b
       /\ cellKeys' = ClientCellKeys(indexFile.doc.obj.gridSize, b)
       /\ relevantCells' = GetGridCellsForBounds(indexFile.doc.obj, b)
  /\ UNCHANGED <<pc, runs, clock, error>>
  /\ UNCHANGED runVars
  /\ UNCHANGED diskVars
  /\ UNCHANGED indexLocals
  /\ UNCHANGED <<propertiesToKeep, properties, optimized, calls>>
  /\ UNCHANGED extractedVars
  /\ UNCHANGED loaderVars

\* a single invocation, then the map client on its output
NextClient == FirstRun \/ RunSteps \/ HandleMoveEnd
SpecClient == Init /\ [][NextClient]_vars

\* ---- the map client's tile loader (the load effect of PropertyBoundaries)
\* what the other steps of the client leave alone
generatorVars == <<pc, runs, clock, error, shapefile, gridSize, bounds, grid,
                   nextFeature, tiles, indexFile, existingIndex, existingCells,
                   nonEmptyCells, propertiesToKeep, properties, optimized, calls,
                   viewport, cellKeys, relevantCells, tempDir,
                   projectionTransform, zipfile>>

\* boundsKey: the four bounds under toFixed(6) (the zoom level is taken as
\* part of the view)
BoundsKey(b) ==
  <<ToFixed(b.north), ToFixed(b.south), ToFixed(b.east), ToFixed(b.west)>>

\* the filenames the callback fetches: those of the relevant cells that the
\* loadedCells of its closure does not have, in order
RECURSIVE NotLoaded(_, _)
NotLoaded(relevant, cells) ==
  IF relevant = <<>> THEN <<>>
  ELSE (IF Head(relevant).filename \in cells THEN <<>>
        ELSE <<Head(relevant).filename>>)
         \o NotLoaded(Tail(relevant), cells)
ToFetch(index, b, cells) == NotLoaded(GetGridCellsForBounds(index, b), cells)

\* the index is fetched and setParcelIndex called; the load effect runs for
\* the first time: it calls handleMoveEnd, which sets the timer, and
\* registers it for moveend and zoomend
LoadIndex ==
  /\ pc = "done"
  /\ indexFile.exists /\ indexFile.parses /\ ~indexFile.doc.isNull
  /\ ~parcelIndex.loaded
  /\ parcelIndex' = [loaded |-> TRUE, index |-> indexFile.doc.obj]
  /\ mapBounds' \in LoaderViewports
  /\ unavailable' \in SUBSET DOMAIN tiles
  /\ handlerCells' = loadedCells
  /\ debounceTimerRef' = Timer(loadedCells)
  /\ renderPending' = FALSE
  /\ UNCHANGED <<loadedCells, isLoadingRef, lastBoundsRef, fetchQueue,
                 parcelLayer, moves>>
  /\ UNCHANGED generatorVars

\* the user pans or zooms: moveend or zoomend calls the registered
\* handleMoveEnd, which replaces the timer
MapMoves ==
  /\ parcelIndex.loaded
  /\ moves < MaxMoves
  /\ moves' = moves + 1
  /\ mapBounds' \in LoaderViewports
  /\ debounceTimerRef' = Timer(handlerCells)
  /\ UNCHANGED <<parcelIndex, unavailable, loadedCells, handlerCells,
                 renderPending, isLoadingRef, lastBoundsRef, fetchQueue,
                 parcelLayer>>
  /\ UNCHANGED generatorVars

\* the timer fires: the callback returns if a load is running or the bounds
\* are the last ones; otherwise it runs up to its first fetch (or to its end,
\* when there is nothing to fetch)
TimerFires ==
  /\ debounceTimerRef.pending
  /\ debounceTimerRef' = NoTimer
  /\ IF isLoadingRef \/ BoundsKey(mapBounds) = lastBoundsRef
       THEN UNCHANGED <<isLoadingRef, lastBoundsRef, fetchQueue>>
       ELSE LET queue == ToFetch(parcelIndex.index, mapBounds,
                                 debounceTimerRef.loadedCells)
            IN /\ lastBoundsRef' = BoundsKey(mapBounds)
               /\ fetchQueue' = queue
               /\ isLoadingRef' = (queue # <<>>)
  /\ UNCHANGED <<parcelIndex, mapBounds, unavailable, loadedCells, handlerCells,
                 renderPending, parcelLayer, moves>>
  /\ UNCHANGED generatorVars

\* the fetch in flight is answered ok: addData, setLoadedCells, and the loop
\* goes on to the next fetch or ends (finally: isLoadingRef.current = false)
FetchSucceeds ==
  /\ isLoadingRef
  /\ Head(fetchQueue) \notin unavailable
  /\ parcelLayer' = Append(parcelLayer, Head(fetchQueue))
  /\ loadedCells' = loadedCells \cup {Head(fetchQueue)}
  /\ renderPending' = TRUE
  /\ fetchQueue' = Tail(fetchQueue)
  /\ isLoadingRef' = (Tail(fetchQueue) # <<>>)
  /\ UNCHANGED <<parcelIndex, mapBounds, unavailable, handlerCells,
                 debounceTimerRef, lastBoundsRef, moves>>
  /\ UNCHANGED generatorVars

\* the fetch in flight is not answered ok, or rejects: the loop goes on
FetchFails ==
  /\ isLoadingRef
  /\ Head(fetchQueue) \in unavailable
  /\ fetchQueue' = Tail(fetchQueue)
  /\ isLoadingRef' = (Tail(fetchQueue) # <<>>)
  /\ UNCHANGED <<parcelIndex, mapBounds, unavailable, loadedCells, handlerCells,
                 renderPending, debounceTimerRef, lastBoundsRef, parcelLayer,
                 moves>>
  /\ UNCHANGED generatorVars

\* the component renders with the new loadedCells and the load effect re-runs:
\* its cleanup removes the handlers and clears the timer, its body calls the
\* new handleMoveEnd, which sets a timer, and registers it
Rerender ==
  /\ renderPending
  /\ renderPending' = FALSE
  /\ handlerCells' = loadedCells
  /\ debounceTimerRef' = Timer(loadedCells)
  /\ UNCHANGED <<parcelIndex, mapBounds, unavailable, loadedCells, isLoadingRef,
                 lastBoundsRef, fetchQueue, parcelLayer, moves>>
  /\ UNCHANGED generatorVars

LoaderSteps ==
  \/ LoadIndex
  \/ MapMoves
  \/ TimerFires
  \/ FetchSucceeds
  \/ FetchFails
  \/ Rerender

\* one invocation, then the tile loader on its output; timers fire, fetches
\* are answered and renders happen in any order
StartLoaderRun == pc = "idle" /\ StartRunWith(LoaderDatasets, LoaderGridSizes)
NextLoader == StartLoaderRun \/ RunSteps \/ LoaderSteps
SpecLoader == Init /\ [][NextLoader]_vars

\* the same, where a pending timer fires, a fetch in flight is answered and a
\* pending render happens.  The first condition is WF_vars(TimerFires) written
\* out: a TimerFires step changes debounceTimerRef, so it is enabled exactly
\* when the timer is pending.
SpecLoaderLive ==
  /\ SpecLoader
  /\ ([]<>(~debounceTimerRef.pending) \/ []<><<TimerFires>>_vars)
  /\ WF_vars(FetchSucceeds)
  /\ WF_vars(FetchFails)
  /\ WF_vars(Rerender)

\* the grid functions on their own: createGrid is called on some bounds ...
CallCreateGrid ==
  /\ pc = "idle"
  /\ \E b \in LibraryBounds, g \in GridSizes, features \in LibraryFeatures :
       /\ bounds' = b
       /\ gridSize' = g
       /\ grid' = CreateGrid(b, g)
       /\ shapefile' = features
  /\ pc' = "library"
  /\ nextFeature' = 1
  /\ UNCHANGED <<runs, clock, error>>
  /\ UNCHANGED diskVars
  /\ UNCHANGED indexLocals
  /\ UNCHANGED outsideRun
  /\ UNCHANGED extractedVars

\* ... and assignFeaturesToGrid on each of some features in turn
CallAssignFeaturesToGrid ==
  /\ pc = "library"
  /\ nextFeature <= Len(shapefile)
  /\ grid' = AssignFeaturesToGrid(shapefile[nextFeature], grid, gridSize)
  /\ nextFeature' = nextFeature + 1
  /\ UNCHANGED <<pc, runs, clock, error, shapefile, gridSize, bounds>>
  /\ UNCHANGED diskVars
  /\ UNCHANGED indexLocals
  /\ UNCHANGED outsideRun
  /\ UNCHANGED extractedVars

NextLibrary == CallCreateGrid \/ CallAssignFeaturesToGrid
SpecLibrary == Init /\ [][NextLibrary]_vars

\* optimizeProperties on its own: any attributes, any list
InitOptimize ==
  \E attributes \in PropertyInputs, list \in AllowLists :
    InitState(AbsentFile, attributes, list)

\* one call, on the attributes given or on what the call before returned
CallOptimizeProperties ==
  /\ calls < MaxCalls
  /\ optimized' = OptimizeProperties(IF calls = 0 THEN properties ELSE optimized,
                                     propertiesToKeep)
  /\ calls' = calls + 1
  /\ UNCHANGED <<pc, runs, clock, error, propertiesToKeep, properties>>
  /\ UNCHANGED runVars
  /\ UNCHANGED diskVars
  /\ UNCHANGED indexLocals
  /\ UNCHANGED clientVars
  /\ UNCHANGED extractedVars
  /\ UNCHANGED loaderVars

NextOptimize == CallOptimizeProperties
SpecOptimize == InitOptimize /\ [][NextOptimize]_vars

\* ------------------------------------------------------------------ claims
\* the index file holds an index document (gridSize, cells, metadata)
IndexWritten ==
  /\ indexFile.exists
  /\ indexFile.parses
  /\ ~indexFile.doc.isNull
  /\ {"cells", "metadata"} \subseteq DOMAIN indexFile.doc.obj
Index == indexFile.doc.obj

\* the last createIndexFile call read an index document
PriorWritten ==
  /\ ~existingIndex.isNull
  /\ {"cells", "metadata"} \subseteq DOMAIN existingIndex.obj
Prior == existingIndex.obj

\* the index the last call read was itself written over no prior index
PriorIsFirstMerge ==
  /\ PriorWritten
  /\ Prior.metadata.generatedAt = Prior.metadata.lastUpdated

\* C1: after any sequence of completed runs starting from no index, the
\* persisted index has metadata.totalFeatures equal to the sum of
\* featureCount over all entries of cells.
C1_TotalFeaturesIsSum ==
  IndexWritten => Index.metadata.totalFeatures = SumFeatureCount(Index.cells)

\* C2: merging the identical cell set (same keys, same entries) a second
\* time into the index the first merge produced leaves totalFeatures and
\* totalCells unchanged.
C2_RemergeIsIdempotent ==
  (/\ pc = "done"
   /\ PriorIsFirstMerge
   /\ nonEmptyCells = Prior.cells)
  => /\ Index.metadata.totalFeatures = Prior.metadata.totalFeatures
     /\ Index.metadata.totalCells = Prior.metadata.totalCells

\* C3: a first merge into an empty prior index followed by a merge of a cell
\* set with disjoint keys gives totalFeatures = the sum of both runs' feature
\* counts and totalCells = the number of keys of the union.
C3_DisjointMergeAdds ==
  (/\ pc = "done"
   /\ PriorIsFirstMerge
   /\ DOMAIN Prior.cells \cap DOMAIN nonEmptyCells = {})
  => /\ Index.metadata.totalFeatures
          = SumFeatureCount(Prior.cells) + SumFeatureCount(nonEmptyCells)
     /\ Index.metadata.totalCells
          = Cardinality(DOMAIN Prior.cells \cup DOMAIN nonEmptyCells)
C3_Witness ==
  /\ pc = "done"
  /\ PriorIsFirstMerge
  /\ DOMAIN Prior.cells \cap DOMAIN nonEmptyCells = {}
  /\ DOMAIN Prior.cells # {}
  /\ DOMAIN nonEmptyCells # {}
  /\ \E k \in DOMAIN Prior.cells : Prior.cells[k].featureCount = 2

\* the keys of the cells of the current run that were assigned a feature
AssignedKeys ==
  {k \in DOMAIN grid.cells :
     IF "features" \in DOMAIN grid.cells[k]
       THEN Len(grid.cells[k].features) > 0
       ELSE grid.cells[k].featureCount > 0}

\* the keys of the index document the run found, none if it found none
PriorKeys == IF PriorWritten THEN DOMAIN Prior.cells ELSE {}

\* C4: the persisted index has metadata.totalCells = the number of entries
\* of cells, and after a completed run cells has exactly the keys of the
\* prior index and the keys of the non-empty cells of the run.
C4_CellsAreUnion ==
  IndexWritten =>
    /\ Index.metadata.totalCells = Cardinality(DOMAIN Index.cells)
    /\ pc = "done" => DOMAIN Index.cells = PriorKeys \cup AssignedKeys
C4_Witness ==
  /\ pc = "done"
  /\ PriorKeys \ AssignedKeys # {}
  /\ AssignedKeys \ PriorKeys # {}
  /\ AssignedKeys \cap PriorKeys # {}

\* C5: the merge is last-write-wins per cell: every key the run produced
\* maps to the run's {bounds, filename, featureCount}, every other prior
\* entry is kept as it was.
C5_LastWriteWins ==
  (pc = "done") =>
    /\ \A k \in AssignedKeys :
         Index.cells[k] = [bounds |-> grid.cells[k].bounds,
                           filename |-> grid.cells[k].filename,
                           featureCount |-> grid.cells[k].featureCount]
    /\ \A k \in PriorKeys \ AssignedKeys : Index.cells[k] = Prior.cells[k]
C5_Witness ==
  /\ pc = "done"
  /\ \E k \in AssignedKeys \cap PriorKeys : Prior.cells[k] # Index.cells[k]
  /\ PriorKeys \ AssignedKeys # {}

\* C6: generatedAt is set by the first run to that run's timestamp and no
\* later merge changes it; lastUpdated is the timestamp of the latest
\* completed run.
C6_GeneratedAtImmutable ==
  /\ [](pc = "done" =>
          /\ Index.metadata.lastUpdated = clock
          /\ ~PriorWritten => Index.metadata.generatedAt = clock)
  /\ [][(IndexWritten /\ IndexWritten')
          => Index'.metadata.generatedAt = Index.metadata.generatedAt]_vars
C6_Witness ==
  /\ pc = "done"
  /\ PriorWritten
  /\ Index.metadata.generatedAt = Prior.metadata.generatedAt
  /\ Index.metadata.generatedAt < Index.metadata.lastUpdated
  /\ Index.metadata.lastUpdated > Prior.metadata.lastUpdated

\* the index document a run writes when there is no prior index
FreshIndex ==
  [gridSize |-> gridSize,
   cells |-> nonEmptyCells,
   metadata |-> [totalCells |-> Cardinality(DOMAIN nonEmptyCells),
                 totalFeatures |-> SumFeatureCount(nonEmptyCells),
                 lastUpdated |-> clock,
                 generatedAt |-> clock]]

\* C7: with the existing index file absent, unparseable, or JSON that is not
\* an index object (null, an object without cells/metadata), createIndexFile
\* does not fail and writes the complete index of the run alone.
C7_MalformedIndexNeverFatal ==
  /\ error # "TypeError: reading 'metadata' of null"
  /\ (pc = "done" /\ ~PriorWritten) => (IndexWritten /\ Index = FreshIndex)

\* C8: a grid cell with no assigned feature gets no tile file from
\* writeGridFiles and no entry from createIndexFile: every tile a step
\* writes is the non-empty feature list of its cell, and every entry of the
\* run is a finalized cell with featureCount >= 1.
C8_EmptyCellsExcluded ==
  [][/\ \A f \in DOMAIN tiles' :
          (f \notin DOMAIN tiles \/ tiles'[f] # tiles[f]) =>
            \E k \in DOMAIN grid.cells :
              /\ f = TileFilename(k)
              /\ "features" \in DOMAIN grid.cells[k]
              /\ Len(grid.cells[k].features) > 0
              /\ tiles'[f].features = grid.cells[k].features
     /\ \A k \in DOMAIN nonEmptyCells' :
          /\ k \in DOMAIN grid'.cells
          /\ "features" \notin DOMAIN grid'.cells[k]
          /\ nonEmptyCells'[k].featureCount >= 1
          /\ TileFilename(k) \in DOMAIN tiles'
    ]_vars
C8_Witness ==
  /\ pc = "done"
  /\ DOMAIN nonEmptyCells # {}
  /\ \E k \in DOMAIN grid.cells :
       /\ "features" \in DOMAIN grid.cells[k]
       /\ grid.cells[k].features = <<>>
       /\ k \notin DOMAIN nonEmptyCells
       /\ TileFilename(k) \notin DOMAIN tiles

\* createGrid has returned in the current run
GridBuilt == pc \notin {"idle", "bounds", "grid", "hung"}

\* the vertices [lng, lat] of the Polygon and MultiPolygon features
AreaVertices ==
  UNION {{GetAllCoordinates(shapefile[i].geometry)[j] :
            j \in 1..Len(GetAllCoordinates(shapefile[i].geometry))} :
         i \in {x \in 1..Len(shapefile) :
                  shapefile[x].geometry.type \in {"Polygon", "MultiPolygon"}}}

\* vertex v = [lng, lat] lies inside cell bounds b
InCell(v, b) ==
  /\ b.minLat <= v[2] /\ v[2] <= b.maxLat
  /\ b.minLng <= v[1] /\ v[1] <= b.maxLng

\* C9: for non-empty bounds and gridSize > 0, every vertex of every Polygon /
\* MultiPolygon feature lies inside the bounds of some cell of the grid
\* createGrid built, and the key getCellKey gives the vertex is a key of
\* that grid.
C9_GridCoverage ==
  (GridBuilt /\ ~bounds.empty) =>
    \A v \in AreaVertices :
      /\ \E k \in DOMAIN grid.cells : InCell(v, grid.cells[k].bounds)
      /\ GetCellKey(v[2], v[1], gridSize) \in DOMAIN grid.cells

\* how many times feature f is in the list features
Occurrences(features, f) == Cardinality({i \in 1..Len(features) : features[i] = f})

\* the keys on the lattice rectangle of feature f: the cells whose row and
\* column numbers lie between those of the corners of its bounding box
LatticeKeys(f, g) ==
  LET fb == FoldBounds(EmptyBounds, GetAllCoordinates(f.geometry))
  IN {<<ToFixed(FMul(i, g)), ToFixed(FMul(j, g))>> :
        i \in FloorQuot(fb.minLat, g)..FloorQuot(fb.maxLat, g),
        j \in FloorQuot(fb.minLng, g)..FloorQuot(fb.maxLng, g)}

\* no cell of the current grid is finalized yet
NoneFinalized == \A k \in DOMAIN grid.cells : "features" \in DOMAIN grid.cells[k]

\* C10: assignFeaturesToGrid appends a feature with a vertex exactly once to
\* every existing cell whose key is on the lattice rectangle of its bounding
\* box, and to no other cell.
C10_MultiCellAssignment ==
  (pc \in {"assign", "write"} /\ NoneFinalized) =>
    \A i \in 1..(nextFeature - 1) :
      GetAllCoordinates(shapefile[i].geometry) # <<>> =>
        \A k \in DOMAIN grid.cells :
          Occurrences(grid.cells[k].features, Optimized(shapefile[i]))
            = IF k \in LatticeKeys(shapefile[i], gridSize) THEN 1 ELSE 0

\* the producer's keys of the cells that overlap viewport b: getCellKey of
\* every point of b
ProducerKeys(b, gridSz) ==
  {GetCellKey(lat, lng, gridSz) : lat \in b.south..b.north, lng \in b.west..b.east}

\* C11: the keys getGridCellsForBounds computes for a viewport are the
\* producer's keys (getCellKey) of the cells overlapping the viewport, and it
\* returns the index entries of exactly those cells.
C11_ClientKeysMatchProducer ==
  viewport.moved =>
    /\ Range(cellKeys) = ProducerKeys(viewport, Index.gridSize)
    /\ Range(relevantCells)
         = {Index.cells[k] :
              k \in ProducerKeys(viewport, Index.gridSize) \cap DOMAIN Index.cells}

\* C12: when the bounds pass leaves the bounds at the empty sentinel the run
\* is aborted: it goes no further than the pass, builds no grid, and
\* neither writes a tile nor creates or changes the index file.
C12_EmptyBoundsAreFatal ==
  /\ []((pc \notin {"idle", "bounds"} /\ bounds.empty)
          => (pc = "failed" /\ grid = EmptyGrid))
  /\ [][(pc' # "idle" /\ bounds'.empty) => UNCHANGED diskVars]_vars

\* C13: with a grid size that is zero or negative the run stops with an
\* error once the size is read: no cell is created, no tile is written and
\* the index file is left as it was.
C13_BadGridSizeIsFatal ==
  /\ []((gridSize <= 0 /\ pc \notin {"idle", "bounds", "grid"})
          => (pc = "failed" /\ grid = EmptyGrid))
  /\ [][(pc' # "idle" /\ gridSize' <= 0) => UNCHANGED diskVars]_vars

\* what optimizeProperties is to return for attributes p and list L: the
\* listed names that p has with a value other than undefined, with p's values
ExpectedProps(p, L) ==
  IF p.isNull THEN EmptyObject
  ELSE [n \in {x \in Range(L) : x \in DOMAIN p.vals /\ p.vals[x] # Undefined} |->
          p.vals[n]]

\* C14: optimizeProperties returns an object whose names are exactly the
\* listed names the input has with a value other than undefined, each with
\* the input's value; unlisted names are dropped, a listed name the input
\* lacks is no error, and a list with the same names in another order or
\* with repetitions gives the same mapping.
C14_OnlyAllowListedPresent ==
  calls = 1 =>
    /\ ~optimized.isNull
    /\ optimized.vals = ExpectedProps(properties, propertiesToKeep)
    /\ Range(optimized.order) = DOMAIN optimized.vals
    /\ \A L \in AllowLists :
         Range(L) = Range(propertiesToKeep) =>
           OptimizeProperties(properties, L).vals = optimized.vals
C14_Witness ==
  /\ calls = 1
  /\ ~properties.isNull
  /\ "OWNER" \in DOMAIN properties.vals
  /\ GetProp(properties, "City") = Undefined /\ "City" \in DOMAIN properties.vals
  /\ propertiesToKeep = <<"ZipCode", "City", "APN">>
  /\ DOMAIN optimized.vals = {"APN"}

\* C15: a second call of optimizeProperties with the same list, on the
\* result of the first, returns that result again (attributes null or an
\* object).
C15_OptimizeIdempotent ==
  [][(calls >= 1 /\ calls' = calls + 1) => optimized' = optimized]_vars
C15_Witness ==
  /\ calls = 2
  /\ ~properties.isNull
  /\ DOMAIN optimized.vals # {}
  /\ DOMAIN optimized.vals # DOMAIN properties.vals
  /\ Len(propertiesToKeep) > Len(optimized.order)

\* the cells of the current grid whose tile this run has written
FinalizedKeys == {k \in DOMAIN grid.cells : "filename" \in DOMAIN grid.cells[k]}

\* C16: every written cell has the filename 'parcels_' + cellKey + '.json',
\* its key being getCellKey of the cell's corner (both components under
\* toFixed(6)); two keys never share a filename; the index entry under key k
\* names the file derived from k.
C16_FilenameFromKey ==
  /\ \A k \in FinalizedKeys :
       /\ grid.cells[k].filename = <<"parcels_", k, ".json">>
       /\ grid.cells[k].filename \in DOMAIN tiles
       /\ k = GetCellKey(grid.cells[k].bounds.minLat, grid.cells[k].bounds.minLng,
                         gridSize)
  /\ IndexWritten =>
       /\ \A k \in DOMAIN Index.cells :
            Index.cells[k].filename = <<"parcels_", k, ".json">>
       /\ \A k1, k2 \in DOMAIN Index.cells :
            k1 # k2 => Index.cells[k1].filename # Index.cells[k2].filename
C16_Witness ==
  /\ pc = "done"
  /\ PriorKeys \ AssignedKeys # {}
  /\ \E k1, k2 \in DOMAIN Index.cells : k1 # k2 /\ k1[1] = k2[1]

\* C17: when a run fails after writing tiles, no tile file it wrote (or
\* wrote over) is named by an entry of the index file.
C17_FailedRunTilesInert ==
  (pc = "failed" /\ IndexWritten) =>
    \A k \in FinalizedKeys :
      \A j \in DOMAIN Index.cells :
        Index.cells[j].filename # grid.cells[k].filename

\* C18: the index file changes only in createIndexFile, when every cell
\* with features has its tile written; when a tile write fails the run is
\* failed, it never reaches createIndexFile, and the index file stays as it
\* was.
C18_IndexAfterTiles ==
  /\ [](error = "writeJson failed" => pc = "failed")
  /\ [][indexFile' # indexFile =>
          /\ pc = "index"
          /\ \A k \in AssignedKeys :
               /\ k \in FinalizedKeys
               /\ grid.cells[k].filename \in DOMAIN tiles
               /\ Len(tiles[grid.cells[k].filename].features) > 0]_vars
  /\ [][error' = "writeJson failed" => indexFile' = indexFile]_vars
C18_Witness ==
  /\ pc = "failed"
  /\ error = "writeJson failed"
  /\ IndexWritten
  /\ FinalizedKeys # {}

\* C19: after a completed run every index entry the run produced names an
\* existing tile that is a FeatureCollection with featureCount features,
\* featureCount >= 1, and the cell no longer has its features array.
C19_EntryMatchesTile ==
  pc = "done" =>
    \A k \in DOMAIN nonEmptyCells :
      /\ Index.cells[k] = nonEmptyCells[k]
      /\ nonEmptyCells[k].filename \in DOMAIN tiles
      /\ tiles[nonEmptyCells[k].filename].type = "FeatureCollection"
      /\ Len(tiles[nonEmptyCells[k].filename].features) = nonEmptyCells[k].featureCount
      /\ nonEmptyCells[k].featureCount >= 1
      /\ "features" \notin DOMAIN grid.cells[k]
C19_Witness ==
  /\ pc = "done"
  /\ \E k \in DOMAIN nonEmptyCells : nonEmptyCells[k].featureCount = 2
  /\ \E k \in DOMAIN nonEmptyCells : nonEmptyCells[k].featureCount = 1

\* the records that have a shape
WithGeometry(features) == SelectSeq(features, LAMBDA f : f.geometry.type # "null")

\* C20: the bounds pass skips a record whose geometry is null without an
\* error: the run goes on, with the bounds of the other records.
C20_NullGeometrySkipped ==
  /\ error # "TypeError: reading 'type' of null"
  /\ pc \notin {"idle", "bounds"} =>
       bounds = ScanBounds(EmptyBounds, WithGeometry(shapefile))

\* every feature list of the grid
AllFeatureLists(g) == [k \in DOMAIN g.cells |-> g.cells[k].features]

\* C21: assignFeaturesToGrid, called with a feature whose geometry is null
\* or has no vertex, leaves the feature list of every cell as it was and
\* raises no error.
C21_NoVertexNoCell ==
  [][(/\ pc = "library"
      /\ nextFeature' = nextFeature + 1
      /\ GetAllCoordinates(shapefile[nextFeature].geometry) = <<>>)
     => (AllFeatureLists(grid') = AllFeatureLists(grid) /\ error' = "none")]_vars
C21_Witness ==
  /\ pc = "library"
  /\ nextFeature = 3
  /\ shapefile[1].geometry = West
  /\ shapefile[2].geometry = NullGeometry
  /\ \E k \in DOMAIN grid.cells : grid.cells[k].features = <<Feature(1, West)>>

\* what the claims about projection expect of a Polygon feature: each vertex
\* replaced by forward's result, or kept where forward throws
ExpectedPoint(point) ==
  IF point \in projectionTransform.fails THEN point ELSE Forward(point)
ExpectedFeature(feature) ==
  LET rings == feature.geometry.coordinates
  IN [feature EXCEPT !.geometry.coordinates =
        [r \in DOMAIN rings |->
           [i \in DOMAIN rings[r] |-> ExpectedPoint(rings[r][i])]]]
IsPolygon(feature) == feature.geometry.type = "Polygon"
InSomeCell(feature) ==
  \E k \in DOMAIN grid.cells : Occurrences(grid.cells[k].features, feature) >= 1

\* C22: a vertex on which the transform throws keeps its coordinates; the
\* other vertices of the feature and the later features are transformed, and
\* every feature of the second pass reaches a cell with no error
C22_FailedPointPassesThrough ==
  (/\ ~projectionTransform.isNull
   /\ pc \in {"assign", "write"}
   /\ NoneFinalized)
  => /\ error = "none"
     /\ \A i \in 1..(nextFeature - 1) :
          IsPolygon(shapefile[i])
            => InSomeCell(Optimized(ExpectedFeature(shapefile[i])))

C22_Witness ==
  /\ pc = "write"
  /\ NoneFinalized
  /\ ~projectionTransform.isNull
  /\ projectionTransform.fails = {<<4, 0>>}
  /\ Len(shapefile) = 2
  /\ shapefile[2].geometry = Rect(10, 0, 14, 4)
  /\ InSomeCell(Optimized(Feature(2, East)))
  /\ InSomeCell(Optimized(Feature(1,
       [type |-> "Polygon",
        coordinates |-> << << <<0, 0>>, <<4, 0>>, <<2, 2>>, <<0, 2>>, <<0, 0>> >> >>])))

\* the .prj file of the temporary directory (the archives of SpecProjection
\* name it parcels.prj), and whether its text is one for which
\* parseShapefileProjection is to return null
PrjFile == <<"parcels", "prj">>
PrjGivesNoTransform(dir) ==
  /\ PrjFile \in DOMAIN dir
  /\ dir[PrjFile].content.wgs84 \/ ~dir[PrjFile].content.parses

\* C23: with a .prj text that names WGS 84, or one proj4 rejects, the run
\* starts without error and without a transform, and every feature put in a
\* cell has the coordinates of its record
C23_ProjectionNeverFatal ==
  /\ [][(runs' = runs + 1 /\ PrjGivesNoTransform(tempDir'))
          => (pc' = "bounds" /\ error' = "none"
              /\ projectionTransform' = NoTransform)]_vars
  /\ []((/\ pc \in {"assign", "write"}
         /\ NoneFinalized
         /\ PrjGivesNoTransform(tempDir))
        => \A k \in DOMAIN grid.cells :
             \A j \in 1..Len(grid.cells[k].features) :
               \E i \in 1..Len(shapefile) :
                 grid.cells[k].features[j] = Optimized(shapefile[i]))

C23_Witness ==
  /\ pc = "write"
  /\ NoneFinalized
  /\ PrjFile \in DOMAIN tempDir
  /\ tempDir[PrjFile].content = PrjContent(FALSE, FALSE)
  /\ projectionTransform = NoTransform
  /\ error = "none"
  /\ InSomeCell(Optimized(Feature(1, Rect(0, 0, 4, 4))))

\* the vertices getAllCoordinates extracts from a record, each reprojected
ReprojectedVertices(feature) ==
  LET vertices == GetAllCoordinates(feature.geometry)
  IN [n \in 1..Len(vertices) |-> ExpectedPoint(vertices[n])]

\* C27: with a transform in use, the vertices of every feature put in a cell
\* (the ones assignFeaturesToGrid folds into its bounding box) are the
\* reprojected vertices of its record, GeometryCollection members included
C27_AllVerticesReprojected ==
  (/\ ~projectionTransform.isNull
   /\ pc \in {"assign", "write"}
   /\ NoneFinalized)
  => \A k \in DOMAIN grid.cells :
       \A j \in 1..Len(grid.cells[k].features) :
         LET f == grid.cells[k].features[j]
         IN \E i \in 1..Len(shapefile) :
              /\ f.properties = Optimized(shapefile[i]).properties
              /\ GetAllCoordinates(f.geometry) = ReprojectedVertices(shapefile[i])

\* C25: createGrid returns for every finite bounds with minLat <= maxLat and
\* minLng <= maxLng and every grid size
C25_CreateGridTerminates ==
  (/\ pc = "grid"
   /\ ~bounds.empty
   /\ bounds.minLat <= bounds.maxLat
   /\ bounds.minLng <= bounds.maxLng)
  => ~CreateGridHangs(bounds, gridSize)

\* C26: in the index file, every entry's bounds are the square of side
\* index.gridSize at (minLat, minLng), and its key is the key of that corner
\* under index.gridSize
C26_EntriesAreIndexSquares ==
  IndexWritten =>
    \A k \in DOMAIN Index.cells :
      LET b == Index.cells[k].bounds
      IN /\ b.maxLat = FAdd(b.minLat, Index.gridSize)
         /\ b.maxLng = FAdd(b.minLng, Index.gridSize)
         /\ k = GetCellKey(b.minLat, b.minLng, Index.gridSize)

\* C28: every feature the second pass has read that has a vertex, of any
\* geometry type, is in at least one cell of the grid
C28_NoFeatureLost ==
  (pc \in {"assign", "write"} /\ NoneFinalized)
  => \A i \in 1..(nextFeature - 1) :
       GetAllCoordinates(shapefile[i].geometry) # <<>>
         => InSomeCell(Optimized(Transformed(shapefile[i])))

\* C29: a run that found its files reads the .shp file of its own archive,
\* and uses a projection only if its own archive has a .prj file
C29_OwnArchiveOnly ==
  pc \in {"bounds", "grid", "assign", "write", "index"} =>
    /\ \E f \in DOMAIN zipfile :
         f[2] = "shp" /\ shapefile = zipfile[f].features
    /\ ~projectionTransform.isNull
         => \E f \in DOMAIN zipfile : f[2] = "prj"

\* C24: addData is called with the data of each tile filename at most once
C24_EachTileAddedOnce ==
  \A f \in Range(parcelLayer) : Occurrences(parcelLayer, f) <= 1

\* the tiles of the index cells the client finds for view v that the server
\* answers ok for are all on the layer
ViewLoaded(v) ==
  /\ parcelIndex.loaded
  /\ \A f \in Range(ToFetch(parcelIndex.index, v, {})) :
       f \in unavailable \/ f \in Range(parcelLayer)

\* C30: once the index is loaded and the view has stopped changing, every
\* tile of the final view whose fetch succeeds is eventually on the layer
C30_FinalViewEventuallyLoaded ==
  \A v \in LoaderViewports :
    <>[](parcelIndex.loaded /\ mapBounds = v) => <>ViewLoaded(v)

====
